---- MODULE Spec2Model ----
(***************************************************************************)
(* Model of MLutilities/EDA.py: five hypothesis-test helpers               *)
(* (kolmogorov_test, biserial_correlation, levene_test, kruskal_test,      *)
(* camersv).  A call is one atomic action: it reads a dataset and its      *)
(* arguments, calls the statistics library, and prints report sections.    *)
(* dataset is the caller's table, which no call changes.  The state after  *)
(* a call holds what the call was given (op, args), what it printed (out), *)
(* the library calls it made (calls) and the exception it ended with       *)
(* (err).  Return brings the program back to idle.                         *)
(*                                                                         *)
(* The statistics library is a collaborator: each of its functions is the  *)
(* set of outcomes it can have on an input (a p-value or an exception),    *)
(* and each helper is the set of results its call can have.                *)
(*                                                                         *)
(* Floats are modelled in thousandths (0.05 is 50, 1.0 is 1000); NaN is    *)
(* the float nan, which is also pandas' missing value.                     *)
(***************************************************************************)
EXTENDS Integers, Sequences, FiniteSets, TLC

VARIABLES op, dataset, args, out, calls, err

vars == <<op, dataset, args, out, calls, err>>

\* Bound of the model: the largest number of rows of a dataset.
MaxRows == 3

\* float nan / the missing value of a column
NaN == -1
\* the significance threshold 0.05, in thousandths
Alpha == 50
\* 1.0 in thousandths
One == 1000
\* float inf
Inf == 1000000000

\* p-values the statistics library may return on non-degenerate input:
\* just below, exactly at, and just above the threshold.
PVals == {49, 50, 51}

\* Values of the grouping column and of the numeric column.
Labels == {1, 2}
Numbers == {1, 2}

\* The dataset has the columns "c" (categorical) and "n" (numeric); "zz" names
\* a column that is absent.
Columns == {"c", "n"}
Rows == [c : Labels \cup {NaN}, n : Numbers \cup {NaN}]
Datasets == UNION {[1..k -> Rows] : k \in 0..MaxRows}

----------------------------------------------------------------------------
\* Float and array helpers

\* == on floats: nan equals nothing, itself included
FloatEq(a, b) == a # NaN /\ b # NaN /\ a = b

\* < on floats: every comparison with nan is false
FloatLt(a, b) == a # NaN /\ b # NaN /\ a < b

\* dataset[name]: the column as an array
Col(ds, name) == [i \in 1..Len(ds) |-> ds[i][name]]

HasNaN(s) == \E i \in 1..Len(s) : s[i] = NaN

\* (x == x[0]).all()
IsConstant(s) == \A i \in 1..Len(s) : FloatEq(s[i], s[1])

Contains(s, v) == \E i \in 1..Len(s) : s[i] = v

\* An array handed to the library: the transform applied and the values it
\* was applied to
Arr(tf, vals) == [tf |-> tf, of |-> vals]

\* Series.unique(): the distinct values in first-seen order, nan included once
RECURSIVE UniqueFrom(_, _, _)
UniqueFrom(s, i, acc) ==
    IF i > Len(s) THEN acc
    ELSE UniqueFrom(s, i + 1, IF Contains(acc, s[i]) THEN acc ELSE Append(acc, s[i]))

Unique(s) == UniqueFrom(s, 1, <<>>)

\* dataset.loc[dataset[cat] == v, ...]: the indices of the selected rows
RECURSIVE SelectFrom(_, _, _, _)
SelectFrom(col, v, i, acc) ==
    IF i > Len(col) THEN acc
    ELSE SelectFrom(col, v, i + 1, IF FloatEq(col[i], v) THEN Append(acc, i) ELSE acc)

Select(col, v) == SelectFrom(col, v, 1, <<>>)

\* the rows of ds at the indices idx
Take(ds, idx) == [k \in 1..Len(idx) |-> ds[idx[k]]]

----------------------------------------------------------------------------
\* Results of a call or of a part of it

Done(o, c) == [out |-> o, calls |-> c, err |-> "none"]
Failed(o, c, e) == [out |-> o, calls |-> c, err |-> e]
Emit(section) == {Done(<<section>>, <<>>)}

\* b runs after a unless a raised
Then(a, b) ==
    IF a.err # "none" THEN a
    ELSE [out |-> a.out \o b.out, calls |-> a.calls \o b.calls, err |-> b.err]

\* Statement sequencing, on the sets of results of two statements
AndThen(A, B) == UNION {IF a.err # "none" THEN {a} ELSE {Then(a, b) : b \in B} : a \in A}

\* Printed sections
Report(test, p, concl, cramer) ==
    [kind |-> "report", test |-> test, y |-> NaN, p |-> p, concl |-> concl,
     cramer |-> cramer]
Header(test, y) ==
    [kind |-> "header", test |-> test, y |-> y, p |-> NaN, concl |-> "",
     cramer |-> NaN]
Section(kind, test) ==
    [kind |-> kind, test |-> test, y |-> NaN, p |-> NaN, concl |-> "",
     cramer |-> NaN]

\* A library call: the function and the arrays it was given; rows are the
\* dataset rows each array was taken from
LibCall(fn, x, rows) == [fn |-> fn, x |-> x, rows |-> rows]

\* What the library returns: a p-value, or an exception
Ret(p) == [err |-> "none", p |-> p]
Raised(e) == [err |-> e, p |-> NaN]

----------------------------------------------------------------------------
\* kolmogorov_test

\* the transform selection of kolmogorov_test
KolmogorovTransform(col, yj, lg) ==
    IF yj THEN
        \* stats.yeojohnson returns the empty input itself, not a pair: [0] fails
        IF Len(col) = 0 THEN [err |-> "IndexError", x |-> Arr("identity", col)]
        ELSE [err |-> "none", x |-> Arr("yeojohnson", col)]
    ELSE IF lg THEN [err |-> "none", x |-> Arr("log1p", col)]
    ELSE [err |-> "none", x |-> Arr("identity", col)]

\* stats.kstest(x, 'norm'): on an empty sample some releases of the library
\* raise and the others return nan; a nan in the sample gives nan
kstest(x) ==
    IF Len(x.of) = 0 THEN {Raised("ValueError"), Ret(NaN)}
    ELSE IF HasNaN(x.of) THEN {Ret(NaN)}
    ELSE {Ret(p) : p \in PVals}

KolmogorovConclusion(p) == IF FloatLt(p, Alpha) THEN "reject" ELSE "cannot reject"

kolmogorov_test(ds, variable, yj, lg) ==
    IF variable \notin Columns THEN {Failed(<<>>, <<>>, "KeyError")}
    ELSE LET t == KolmogorovTransform(Col(ds, variable), yj, lg)
             c == <<LibCall("kstest", <<t.x>>, <<>>)>>
         IN  IF t.err # "none" THEN {Failed(<<>>, <<>>, t.err)}
             ELSE {IF r.err # "none" THEN Failed(<<>>, c, r.err)
                   ELSE Done(<<Report("kolmogorov", r.p, KolmogorovConclusion(r.p), NaN)>>, c)
                   : r \in kstest(t.x)}

----------------------------------------------------------------------------
\* levene_test

\* stats.levene(x1, x2): an empty sample or a nan in a sample gives nan
\* (means and medians of them are nan), no exception
levene(x1, x2) ==
    IF Len(x1) = 0 \/ Len(x2) = 0 \/ HasNaN(x1) \/ HasNaN(x2) THEN {Ret(NaN)}
    ELSE {Ret(p) : p \in PVals}

LeveneConclusion(p) == IF FloatLt(p, Alpha) THEN "reject" ELSE "cannot reject"

\* The two groups of levene_test: the rows whose label is y_unique[0], and
\* those whose label is y_unique[1]
LeveneGroups(col, y_unique) == <<Select(col, y_unique[1]), Select(col, y_unique[2])>>

levene_test(ds, categorical_variable, numerical_variable) ==
    IF categorical_variable \notin Columns THEN {Failed(<<>>, <<>>, "KeyError")}
    ELSE LET col == Col(ds, categorical_variable)
             y_unique == Unique(col)
         IN  IF Len(y_unique) < 1 THEN {Failed(<<>>, <<>>, "IndexError")}
             ELSE IF numerical_variable \notin Columns THEN {Failed(<<>>, <<>>, "KeyError")}
             ELSE IF Len(y_unique) < 2 THEN {Failed(<<>>, <<>>, "IndexError")}
             ELSE LET g == LeveneGroups(col, y_unique)
                      x1 == Col(Take(ds, g[1]), numerical_variable)
                      x2 == Col(Take(ds, g[2]), numerical_variable)
                      c == <<LibCall("levene",
                                     <<Arr("identity", x1), Arr("identity", x2)>>, g)>>
                  IN  {IF r.err # "none" THEN Failed(<<>>, c, r.err)
                       ELSE Done(<<Report("levene", r.p, LeveneConclusion(r.p), NaN)>>, c)
                       : r \in levene(x1, x2)}

----------------------------------------------------------------------------
\* kruskal_test

\* stats.kruskal(x1, x2): an empty sample or a nan gives nan; when all the
\* numbers are identical some releases raise ValueError and the others
\* return nan
kruskal(x1, x2) ==
    IF Len(x1) = 0 \/ Len(x2) = 0 \/ HasNaN(x1) \/ HasNaN(x2) THEN {Ret(NaN)}
    ELSE IF IsConstant(x1 \o x2) THEN {Raised("ValueError"), Ret(NaN)}
    ELSE {Ret(p) : p \in PVals}

KruskalConclusion(p) == IF FloatLt(p, Alpha) THEN "reject" ELSE "cannot reject"

KruskalGroups(col, y_unique) == <<Select(col, y_unique[1]), Select(col, y_unique[2])>>

kruskal_test(ds, target_variable, input_variable) ==
    IF target_variable \notin Columns THEN {Failed(<<>>, <<>>, "KeyError")}
    ELSE LET col == Col(ds, target_variable)
             y_unique == Unique(col)
         IN  IF Len(y_unique) < 1 THEN {Failed(<<>>, <<>>, "IndexError")}
             ELSE IF input_variable \notin Columns THEN {Failed(<<>>, <<>>, "KeyError")}
             ELSE IF Len(y_unique) < 2 THEN {Failed(<<>>, <<>>, "IndexError")}
             ELSE LET g == KruskalGroups(col, y_unique)
                      x1 == Col(Take(ds, g[1]), input_variable)
                      x2 == Col(Take(ds, g[2]), input_variable)
                      c == <<LibCall("kruskal",
                                     <<Arr("identity", x1), Arr("identity", x2)>>, g)>>
                      \* the skewness and kurtosis section is printed before the test
                      skew == <<Section("descriptive", "kruskal")>>
                  IN  {IF r.err # "none" THEN Failed(skew, c, r.err)
                       ELSE Done(skew \o <<Report("kruskal", r.p, KruskalConclusion(r.p), NaN)>>,
                                 c)
                       : r \in kruskal(x1, x2)}

----------------------------------------------------------------------------
\* biserial_correlation

\* the assert that opens biserial_correlation: not (log == yeo)
BiserialConfigCheck(yj, lg) == ~(lg = yj)

\* LabelEncoder's classes: the distinct values sorted ascending, nan last
RECURSIVE SortedFrom(_, _)
SortedFrom(S, acc) ==
    IF S = {} THEN acc
    ELSE LET m == CHOOSE v \in S : \A w \in S : v <= w
         IN  SortedFrom(S \ {m}, Append(acc, m))

\* Mutant of Classes: the classes in first-seen order, unsorted
ClassesFirstSeen(col) == Unique(col)

Classes(col) ==
    LET vals == {col[i] : i \in 1..Len(col)}
    IN  SortedFrom(vals \ {NaN}, <<>>) \o (IF NaN \in vals THEN <<NaN>> ELSE <<>>)

IndexOf(s, v) == CHOOSE k \in 1..Len(s) : s[k] = v

\* LabelEncoder().fit_transform(column): each value's 0-based index in classes
fit_transform(col) == [i \in 1..Len(col) |-> IndexOf(Classes(col), col[i]) - 1]

\* the transform selection of biserial_correlation
BiserialTransform(col, yj, lg) ==
    IF yj THEN
        IF Len(col) = 0 THEN [err |-> "IndexError", x |-> Arr("identity", col)]
        ELSE [err |-> "none", x |-> Arr("yeojohnson", col)]
    ELSE IF lg THEN [err |-> "none", x |-> Arr("log1p", col)]
    ELSE [err |-> "none", x |-> Arr("identity", col)]

\* stats.pointbiserialr(y, x), which is pearsonr: fewer than two points raise,
\* a constant input gives nan, two points give p = 1.0
pointbiserialr(y, x) ==
    IF Len(y) < 2 THEN {Raised("ValueError")}
    ELSE IF IsConstant(x.of) \/ IsConstant(y) THEN {Ret(NaN)}
    ELSE IF Len(y) = 2 THEN {Ret(One)}
    ELSE IF HasNaN(x.of) THEN {Ret(NaN)}
    ELSE {Ret(p) : p \in PVals}

\* Mutant of BiserialConclusion: the threshold itself rejects
BiserialConclusionAtThreshold(p) ==
    IF p # NaN /\ p <= Alpha THEN "reject" ELSE "cannot reject"

BiserialConclusion(p) == IF FloatLt(p, Alpha) THEN "reject" ELSE "cannot reject"

\* The data frames handed to the two normality diagnostics, given the frames
\* x1 and x2 of the two groups
FirstDiagnosticInput(x1, x2) == x1
SecondDiagnosticInput(x1, x2) == x1

\* if test_assumptions: two Kolmogorov tests and a Levene test, each under
\* its banner.  The library's tests are pure functions: the second Kolmogorov
\* test, when run on the input of the first, has the result of the first.
BiserialAssumptions(ds, cat, num, yj, lg) ==
    IF cat \notin Columns THEN {Failed(<<>>, <<>>, "KeyError")}
    ELSE LET col == Col(ds, cat)
             y_unique == Unique(col)
         IN  IF Len(y_unique) < 1 THEN {Failed(<<>>, <<>>, "IndexError")}
             ELSE IF num \notin Columns THEN {Failed(<<>>, <<>>, "KeyError")}
             ELSE IF Len(y_unique) < 2 THEN {Failed(<<>>, <<>>, "IndexError")}
             ELSE LET x1 == Take(ds, Select(col, y_unique[1]))
                      x2 == Take(ds, Select(col, y_unique[2]))
                      d1 == FirstDiagnosticInput(x1, x2)
                      d2 == SecondDiagnosticInput(x1, x2)
                      h1 == Emit(Header("kolmogorov", y_unique[1]))
                      h2 == Emit(Header("kolmogorov", y_unique[2]))
                      h3 == Emit(Header("levene", NaN))
                      both == UNION {AndThen(h1, AndThen({k1}, AndThen(h2,
                                         IF d2 = d1 THEN {k1}
                                         ELSE kolmogorov_test(d2, num, yj, lg))))
                                     : k1 \in kolmogorov_test(d1, num, yj, lg)}
                  IN  AndThen(both, AndThen(h3, levene_test(ds, cat, num)))

\* the point-biserial test itself
BiserialMain(ds, cat, num, yj, lg) ==
    IF cat \notin Columns \/ num \notin Columns THEN {Failed(<<>>, <<>>, "KeyError")}
    ELSE LET y == fit_transform(Col(ds, cat))
             t == BiserialTransform(Col(ds, num), yj, lg)
             c == <<LibCall("pointbiserialr", <<Arr("LabelEncoder", y), t.x>>, <<>>)>>
         IN  IF t.err # "none" THEN {Failed(<<>>, <<>>, t.err)}
             ELSE {IF r.err # "none" THEN Failed(<<>>, c, r.err)
                   ELSE Done(<<Report("pointbiserial", r.p, BiserialConclusion(r.p), NaN)>>, c)
                   : r \in pointbiserialr(y, t.x)}

biserial_correlation(ds, cat, num, yj, lg, test_assumptions) ==
    IF ~BiserialConfigCheck(yj, lg) THEN {Failed(<<>>, <<>>, "AssertionError")}
    ELSE AndThen(IF test_assumptions THEN BiserialAssumptions(ds, cat, num, yj, lg)
             ELSE {Done(<<>>, <<>>)},
             BiserialMain(ds, cat, num, yj, lg))

----------------------------------------------------------------------------
\* camersv

RECURSIVE SetSum(_, _)
SetSum(f, S) ==
    IF S = {} THEN 0
    ELSE LET x == CHOOSE x \in S : TRUE IN f[x] + SetSum(f, S \ {x})

Min(a, b) == IF a <= b THEN a ELSE b

\* pd.crosstab(input, target): the counts of the rows in which both values are
\* present, by the input's labels (rows) and the target's labels (columns)
crosstab(ds, input_feature, target_feature) ==
    LET kept == {i \in 1..Len(ds) :
                    ds[i][input_feature] # NaN /\ ds[i][target_feature] # NaN}
        rl == {ds[i][input_feature] : i \in kept}
        cl == {ds[i][target_feature] : i \in kept}
    IN  [rows |-> rl, cols |-> cl,
         n |-> [rc \in rl \X cl |->
                   Cardinality({i \in kept : /\ ds[i][input_feature] = rc[1]
                                             /\ ds[i][target_feature] = rc[2]})]]

\* obs.shape
Shape(obs) == <<Cardinality(obs.rows), Cardinality(obs.cols)>>

\* The chi-squared statistic of a table, in thousandths: the sum over the
\* cells of (O - E)^2 / E with E = row total * column total / N
Chi2Stat(obs) ==
    LET cells == obs.rows \X obs.cols
        N == SetSum(obs.n, cells)
        rt == [r \in obs.rows |-> SetSum([c \in obs.cols |-> obs.n[<<r, c>>]], obs.cols)]
        ct == [c \in obs.cols |-> SetSum([r \in obs.rows |-> obs.n[<<r, c>>]], obs.rows)]
        term == [rc \in cells |->
                    LET d == N * obs.n[rc] - rt[rc[1]] * ct[rc[2]]
                    IN  (One * d * d) \div (N * rt[rc[1]] * ct[rc[2]])]
    IN  SetSum(term, cells)

\* stats.chi2_contingency(obs, correction=False): an empty table raises; with
\* no degree of freedom the statistic is 0.0 and the p-value 1.0
chi2_contingency(obs) ==
    IF obs.rows = {} \/ obs.cols = {} THEN {[err |-> "ValueError", chi2 |-> NaN, p |-> NaN]}
    ELSE IF (Shape(obs)[1] - 1) * (Shape(obs)[2] - 1) = 0
         THEN {[err |-> "none", chi2 |-> 0, p |-> One]}
    ELSE {[err |-> "none", chi2 |-> Chi2Stat(obs), p |-> p] : p \in PVals}

\* dataset[[input, target]].notnull().prod(axis=1).sum()
Dimension(ds, input_feature, target_feature) ==
    SetSum([i \in 1..Len(ds) |->
               (IF ds[i][input_feature] # NaN THEN 1 ELSE 0)
               * (IF ds[i][target_feature] # NaN THEN 1 ELSE 0)],
           1..Len(ds))

\* numpy's float division: 0.0 / 0 is nan and x / 0 is inf, with a warning and
\* no exception
FloatDiv(a, b) ==
    IF a = NaN \/ b = NaN THEN NaN
    ELSE IF b = 0 THEN (IF a = 0 THEN NaN ELSE Inf)
    ELSE IF a = Inf THEN Inf
    ELSE a \div b

RECURSIVE ISqrtIn(_, _, _)
ISqrtIn(v, lo, hi) ==
    IF lo >= hi THEN lo
    ELSE LET mid == (lo + hi + 1) \div 2
         IN  IF mid * mid <= v THEN ISqrtIn(v, mid, hi) ELSE ISqrtIn(v, lo, mid - 1)

\* np.sqrt on thousandths (the root of v * One is at most (v + One) / 2)
Sqrt(v) == IF v = NaN THEN NaN ELSE IF v = Inf THEN Inf ELSE ISqrtIn(v * One, 0, v + One)

\* np.sqrt((chi2 / dimension) / (np.min(obs.shape) - 1))
CramersV(chi2, dimension, shape) ==
    Sqrt(FloatDiv(FloatDiv(chi2, dimension), Min(shape[1], shape[2]) - 1))

CamersvConclusion(p) == IF FloatLt(p, Alpha) THEN "reject" ELSE "cannot reject"

camersv(ds, target_feature, input_feature, show_crosstab) ==
    IF input_feature \notin Columns \/ target_feature \notin Columns
    THEN {Failed(<<>>, <<>>, "KeyError")}
    ELSE LET obs == crosstab(ds, input_feature, target_feature)
             c == <<LibCall("chi2_contingency", <<obs>>, <<>>)>>
             table == IF show_crosstab THEN <<Section("crosstab", "camersv")>> ELSE <<>>
             dimension == Dimension(ds, input_feature, target_feature)
         IN  {IF r.err # "none" THEN Failed(<<>>, c, r.err)
              ELSE Done(table \o <<Report("camersv", r.p, CamersvConclusion(r.p),
                                          CramersV(r.chi2, dimension, Shape(obs)))>>, c)
              : r \in chi2_contingency(obs)}

----------------------------------------------------------------------------
\* The calls

NoArgs ==
    [categorical |-> "", numerical |-> "", apply_yeo_johnson |-> FALSE,
     apply_log_transform |-> FALSE, test_assumptions |-> FALSE,
     show_crosstab |-> FALSE]

\* The caller holds a dataset and has made no call yet.
Init ==
    /\ dataset \in Datasets
    /\ op = "idle"
    /\ args = NoArgs
    /\ out = <<>>
    /\ calls = <<>>
    /\ err = "none"

\* A call ends with the result r; it leaves the caller's dataset as it was
Finish(name, a, r) ==
    /\ op' = name
    /\ args' = a
    /\ out' = r.out
    /\ calls' = r.calls
    /\ err' = r.err
    /\ UNCHANGED dataset

KolmogorovCall ==
    /\ op = "idle"
    /\ \E v \in {"n", "zz"}, yj \in BOOLEAN, lg \in BOOLEAN :
       \E r \in kolmogorov_test(dataset, v, yj, lg) :
          Finish("kolmogorov_test",
                 [NoArgs EXCEPT !.numerical = v, !.apply_yeo_johnson = yj,
                                !.apply_log_transform = lg], r)

BiserialCall ==
    /\ op = "idle"
    /\ \E cv \in {"c", "zz"}, nv \in {"n", "zz"},
          yj \in BOOLEAN, lg \in BOOLEAN, ta \in BOOLEAN :
       \E r \in biserial_correlation(dataset, cv, nv, yj, lg, ta) :
          Finish("biserial_correlation",
                 [NoArgs EXCEPT !.categorical = cv, !.numerical = nv,
                                !.apply_yeo_johnson = yj, !.apply_log_transform = lg,
                                !.test_assumptions = ta], r)

LeveneCall ==
    /\ op = "idle"
    /\ \E cv \in {"c", "zz"}, nv \in {"n", "zz"} :
       \E r \in levene_test(dataset, cv, nv) :
          Finish("levene_test", [NoArgs EXCEPT !.categorical = cv, !.numerical = nv], r)

\* target_variable is the grouping column, input_variable the numeric one
KruskalCall ==
    /\ op = "idle"
    /\ \E cv \in {"c", "zz"}, nv \in {"n", "zz"} :
       \E r \in kruskal_test(dataset, cv, nv) :
          Finish("kruskal_test", [NoArgs EXCEPT !.categorical = cv, !.numerical = nv], r)

\* input_feature is column "c" and target_feature column "n", both read as
\* categories
CamersvCall ==
    /\ op = "idle"
    /\ \E cv \in {"c", "zz"}, nv \in {"n", "zz"}, show \in BOOLEAN :
       \E r \in camersv(dataset, nv, cv, show) :
          Finish("camersv",
                 [NoArgs EXCEPT !.categorical = cv, !.numerical = nv,
                                !.show_crosstab = show], r)

\* the call returns; nothing but the caller's dataset is kept between calls
Return ==
    /\ op # "idle"
    /\ op' = "idle"
    /\ args' = NoArgs
    /\ out' = <<>>
    /\ calls' = <<>>
    /\ err' = "none"
    /\ UNCHANGED dataset

Next ==
    \/ KolmogorovCall
    \/ BiserialCall
    \/ LeveneCall
    \/ KruskalCall
    \/ CamersvCall
    \/ Return

Spec == Init /\ [][Next]_vars

----------------------------------------------------------------------------
\* Properties

\* the printed sections that report a test's result
Reports == SelectSeq(out, LAMBDA s : s.kind = "report")

\* the tests of the reports, in the order printed
ReportTests == [i \in 1..Len(Reports) |-> Reports[i].test]

\* the labels present in the grouping column
PresentLabels == {dataset[i].c : i \in 1..Len(dataset)} \ {NaN}
PresentNumbers == {dataset[i].n : i \in 1..Len(dataset)} \ {NaN}

\* the grouping column holds exactly two labels and no missing value
BinaryColumn ==
    /\ Cardinality(PresentLabels) = 2
    /\ \A i \in 1..Len(dataset) : dataset[i].c # NaN

ColumnsGiven == args.categorical = "c" /\ args.numerical = "n"

\* the numeric values of the rows whose label is v, in row order
ValuesOf(v) ==
    LET idx == SelectSeq([i \in 1..Len(dataset) |-> i], LAMBDA i : dataset[i].c = v)
    IN  [k \in 1..Len(idx) |-> dataset[idx[k]].n]

\* the first and the second label met in row order
FirstSeen == dataset[1].c
SecondSeen ==
    LET i == CHOOSE i \in 1..Len(dataset) :
                 /\ dataset[i].c # FirstSeen
                 /\ \A j \in 1..(i - 1) : dataset[j].c = FirstSeen
    IN  dataset[i].c

LastCall == calls[Len(calls)]
MadeCall(fn) == Len(calls) > 0 /\ LastCall.fn = fn

C2_ConfigCheckAsClaimed ==
    op = "biserial_correlation" =>
        /\ (err = "AssertionError") <=>
               (args.apply_yeo_johnson /\ args.apply_log_transform)
        /\ (/\ ~args.apply_yeo_johnson /\ ~args.apply_log_transform
            /\ ~args.test_assumptions /\ ColumnsGiven)
           => /\ MadeCall("pointbiserialr")
              /\ LastCall.x[2] = Arr("identity", Col(dataset, "n"))

\* C3 (as claimed): with test_assumptions on a binary column, the first
\* normality test is run on the values of the first-seen group and the second
\* on the values of the second-seen group.
C3_DiagnosticGroupsAsClaimed ==
    (/\ op = "biserial_correlation" /\ args.test_assumptions
     /\ ColumnsGiven /\ BinaryColumn /\ Len(calls) >= 2)
    => /\ calls[1].fn = "kstest" /\ calls[1].x[1].of = ValuesOf(FirstSeen)
       /\ calls[2].fn = "kstest" /\ calls[2].x[1].of = ValuesOf(SecondSeen)

\* C4 (as claimed): the first label met in row order is encoded 0 and the
\* second 1.
C4_FirstSeenEncodingAsClaimed ==
    (/\ op = "biserial_correlation" /\ BinaryColumn /\ MadeCall("pointbiserialr"))
    => LastCall.x[1].of = [i \in 1..Len(dataset) |->
                              IF dataset[i].c = FirstSeen THEN 0 ELSE 1]

\* C4 (amended): the smaller of the two labels is encoded 0 and the larger 1,
\* whatever the order of the rows; the codes are a function of the column.
C4_SortedEncoding ==
    (/\ op = "biserial_correlation" /\ BinaryColumn /\ MadeCall("pointbiserialr"))
    => LastCall.x[1].of = [i \in 1..Len(dataset) |->
                              Cardinality({v \in PresentLabels : v < dataset[i].c})]

\* C4 witness: a correlation call on a column whose first-seen label is the
\* larger one.
C4_Witness ==
    /\ op = "biserial_correlation" /\ BinaryColumn /\ MadeCall("pointbiserialr")
    /\ err = "none"
    /\ \E v \in PresentLabels : v < FirstSeen

\* C5 (as claimed): camersv fails, and reports no coefficient and no
\* conclusion, when either feature has fewer than 2 distinct categories.
C5_DegenerateTableAsClaimed ==
    (/\ op = "camersv" /\ ColumnsGiven
     /\ (Cardinality(PresentLabels) < 2 \/ Cardinality(PresentNumbers) < 2))
    => err # "none" /\ Len(Reports) = 0

\* C6 (as claimed): levene_test and kruskal_test fail, and report nothing,
\* when the grouping column has one distinct non-missing value.
C6_InsufficientGroupsAsClaimed ==
    (/\ op \in {"levene_test", "kruskal_test"} /\ ColumnsGiven
     /\ Cardinality(PresentLabels) = 1)
    => err # "none" /\ out = <<>>

\* C7 (as claimed): biserial_correlation with test_assumptions, a valid
\* configuration and a binary column prints the reports normality(group 1),
\* normality(group 2), Levene, point-biserial, in this order.
C7_ThreeDiagnosticsAsClaimed ==
    (/\ op = "biserial_correlation" /\ args.test_assumptions
     /\ ~(args.apply_yeo_johnson /\ args.apply_log_transform)
     /\ ColumnsGiven /\ BinaryColumn)
    => /\ err = "none"
       /\ ReportTests = <<"kolmogorov", "kolmogorov", "levene", "pointbiserial">>
       /\ Len(calls) = 4
       /\ calls[1].x[1].of = ValuesOf(FirstSeen)
       /\ calls[2].x[1].of = ValuesOf(SecondSeen)

\* C8 (as claimed): a row with a missing value in either column is counted
\* in nothing: camersv's N is the sum of the table's cells, and no group of
\* levene_test or kruskal_test holds such a row.
C8_MissingExcludedAsClaimed ==
    /\ (op = "camersv" /\ MadeCall("chi2_contingency"))
       => LET obs == LastCall.x[1]
          IN  Dimension(dataset, "c", "n") = SetSum(obs.n, obs.rows \X obs.cols)
    /\ (op \in {"levene_test", "kruskal_test"} /\ Len(calls) = 1)
       => \A g \in 1..2 : \A k \in 1..Len(calls[1].rows[g]) :
              LET i == calls[1].rows[g][k]
              IN  dataset[i].c # NaN /\ dataset[i].n # NaN

\* C9 (as claimed): kolmogorov_test with both transform flags true fails
\* without transforming or testing anything.
C9_ExclusiveTransformsAsClaimed ==
    (/\ op = "kolmogorov_test"
     /\ args.apply_yeo_johnson /\ args.apply_log_transform)
    => err # "none" /\ out = <<>> /\ calls = <<>>

\* C10 (as claimed): a call that ends in an error has printed no section
\* (the banner lines of biserial_correlation's diagnostics set aside).
C10_NoPartialOutputAsClaimed ==
    err # "none" => \A i \in 1..Len(out) : out[i].kind = "header"
====
